---- MODULE Spec2Model ----
(***************************************************************************)
(* Model of ThermalViscosityInterface.cpp: the conductivity -> viscosity   *)
(* lookup table with its two lookup functions, the signal conditioning,    *)
(* the reshape of the samples into a square matrix (formatData), the       *)
(* decay-weighted column reduction (curveFitting), the summarizer          *)
(* (averageAndDisplay) and main, which runs them once in a fixed order     *)
(* inside one try block.                                                   *)
(*                                                                         *)
(* A double is modelled by an exact rational <<n, d>> in lowest terms with *)
(* d > 0; <<0, 0>> is NaN and <<1, 0>>, <<-1, 0>> are the infinities, the  *)
(* values IEEE division by zero produces.  Rounding of the binary          *)
(* representation is not modelled.                                         *)
(***************************************************************************)
EXTENDS Integers, Sequences, FiniteSets, TLC

VARIABLES
    thermal_to_viscosity,   \* the global std::map<double, double>
    conditioning,           \* main's SignalConditioning {gain, offset}
    config,                 \* main's SignalConfig {decayFactor}
    raw_data,               \* main's std::vector<double>
    formatted_data,         \* Eigen::MatrixXd: [rows, cols, coeff]
    result,                 \* Eigen::VectorXd, result(i) is result[i + 1]
    example_viscosity,      \* main's local holding the lookup's return value
    pc,                     \* the statement of main that runs next
    cout,                   \* the lines written to std::cout
    cerr,                   \* the lines written to std::cerr
    exit_code,              \* main's return value, -1 while it runs
    executed,               \* the calls main has made so far, in order
    call,                   \* the function a direct caller invoked last, with its arguments
    ret                     \* what that call returned or threw

vars == <<thermal_to_viscosity, conditioning, config, raw_data, formatted_data,
          result, example_viscosity, pc, cout, cerr, exit_code, executed, call, ret>>

(***************************************************************************)
(* Bounds of the model.                                                    *)
(***************************************************************************)
MaxLen == 4
MaxN == 10
MaxRows == 3
MaxCols == 2
MaxVecLen == 3

(***************************************************************************)
(* double arithmetic                                                       *)
(***************************************************************************)
Abs(x) == IF x < 0 THEN -x ELSE x

RECURSIVE GCD(_, _)
GCD(a, b) == IF b = 0 THEN a ELSE GCD(b, a % b)

Norm(n, d) ==
    IF d = 0 THEN <<(IF n > 0 THEN 1 ELSE IF n < 0 THEN -1 ELSE 0), 0>>
    ELSE LET g == GCD(Abs(n), Abs(d))
             s == IF d < 0 THEN -1 ELSE 1
         IN  <<(s * n) \div g, (s * d) \div g>>

R(n) == <<n, 1>>
NaN == <<0, 0>>

RAdd(x, y) == Norm(x[1] * y[2] + y[1] * x[2], x[2] * y[2])
RMul(x, y) == Norm(x[1] * y[1], x[2] * y[2])
RDiv(x, y) == Norm(x[1] * y[2], x[2] * y[1])

RECURSIVE RPow(_, _)
RPow(x, j) == IF j = 0 THEN R(1) ELSE RMul(x, RPow(x, j - 1))

(***************************************************************************)
(* A decay factor is the natural logarithm of a positive rational, Ln(q);  *)
(* std::exp(-decayFactor * j) is then (1/q)^j exactly.  Ln(<<1, 1>>) is    *)
(* the decay factor 0.  The default 0.1 (line 21) is represented by        *)
(* Ln(<<21, 19>>) = 0.10008.                                               *)
(***************************************************************************)
Ln(q) == [ln |-> q]
StdExpNeg(decayFactor, j) == RPow(RDiv(R(1), decayFactor.ln), j)

default_gain == R(1)
default_offset == R(0)
default_decayFactor == Ln(<<21, 19>>)

(***************************************************************************)
(* operator<<(std::ostream&, double): six significant digits.  The text is *)
(* the decimal mant * 10^exp with no trailing zero in mant.                *)
(***************************************************************************)
RECURSIVE Pow10(_)
Pow10(k) == IF k = 0 THEN 1 ELSE 10 * Pow10(k - 1)

RECURSIVE NumDigits(_)
NumDigits(n) == IF n < 10 THEN 1 ELSE 1 + NumDigits(n \div 10)

RECURSIVE LongDiv(_, _, _, _)
LongDiv(q, r, d, s) ==
    IF q >= 100000 THEN <<q, r, s>>
    ELSE LongDiv(q * 10 + ((r * 10) \div d), (r * 10) % d, d, s + 1)

RECURSIVE StripZeros(_, _)
StripZeros(m, e) ==
    IF m # 0 /\ m % 10 = 0 THEN StripZeros(m \div 10, e + 1) ELSE <<m, e>>

Decimal(special, m, e) == [special |-> special, mant |-> m, exp |-> e]
NoNumber == Decimal("none", 0, 0)

Format6(x) ==
    IF x[2] = 0
    THEN Decimal(IF x[1] = 0 THEN "nan" ELSE IF x[1] > 0 THEN "inf" ELSE "-inf", 0, 0)
    ELSE IF x[1] = 0 THEN Decimal("", 0, 0)
    ELSE LET sgn == IF x[1] < 0 THEN -1 ELSE 1
             n == Abs(x[1])
             d == x[2]
             ip == n \div d
         IN  IF ip >= 1000000
             THEN LET k == NumDigits(ip) - 6
                      dd == d * Pow10(k)
                      m == (2 * n + dd) \div (2 * dd)
                      z == StripZeros(m, k)
                  IN  Decimal("", sgn * z[1], z[2])
             ELSE LET l == LongDiv(ip, n % d, d, 0)
                      m == IF 2 * l[2] >= d THEN l[1] + 1 ELSE l[1]
                      z == StripZeros(m, -l[3])
                  IN  Decimal("", sgn * z[1], z[2])

\* the text of a decay factor Ln(q): 0 for q = 1, otherwise the digits of
\* ln(q), which the model does not compute
FormatLn(decayFactor) ==
    IF decayFactor.ln = R(1) THEN Decimal("", 0, 0)
    ELSE Decimal("ln", decayFactor.ln[1], decayFactor.ln[2])

Line(text, num) == [text |-> text, num |-> num]

(***************************************************************************)
(* Exceptions are modelled by their what() text.                           *)
(***************************************************************************)
NoException == "no exception"
EmptyInput == "Raw data is empty"
EmptyMatrix == "Data matrix is empty"
KeyNotFound == "Invalid thermal conductivity value"
TransportFailure == "Failed to open COM port"

(***************************************************************************)
(* thermal_to_viscosity (lines 9-13) and std::map's find and operator[].   *)
(***************************************************************************)
Tenths(i) == Norm(i, 10)

PropertyTable ==
    (Tenths(1) :> Tenths(10)) @@ (Tenths(2) :> Tenths(11)) @@ (Tenths(3) :> Tenths(12)) @@
    (Tenths(4) :> Tenths(13)) @@ (Tenths(5) :> Tenths(14)) @@ (Tenths(6) :> Tenths(15)) @@
    (Tenths(7) :> Tenths(16)) @@ (Tenths(8) :> Tenths(17)) @@ (Tenths(9) :> Tenths(18)) @@
    (Tenths(10) :> Tenths(19))

MapFind(map, key) == key \in DOMAIN map

\* operator[] default-constructs the value of a key that is not in the map
MapIndex(map, key) ==
    IF key \in DOMAIN map
    THEN [map |-> map, value |-> map[key]]
    ELSE [map |-> (key :> R(0)) @@ map, value |-> R(0)]

(***************************************************************************)
(* lookupViscosity (lines 80-88) and getViscosity (lines 91-100).  Each    *)
(* returns what it throws, the value it returns and the map it leaves.     *)
(***************************************************************************)
\* lookupViscosity with the miss handled as getViscosity handles it
lookupViscosityReturningSentinel(map, thermal_conductivity) ==
    IF MapFind(map, thermal_conductivity)
    THEN LET at == MapIndex(map, thermal_conductivity)
         IN  [thrown |-> NoException, value |-> at.value, map |-> at.map]
    ELSE [thrown |-> NoException, value |-> R(-1), map |-> map]

lookupViscosity(map, thermal_conductivity) ==
    IF MapFind(map, thermal_conductivity)
    THEN LET at == MapIndex(map, thermal_conductivity)
         IN  [thrown |-> NoException, value |-> at.value, map |-> at.map]
    ELSE [thrown |-> KeyNotFound, value |-> NaN, map |-> map]

\* getViscosity indexing the map before it tests for the key
getViscosityIndexingFirst(map, thermal_conductivity) ==
    LET at == MapIndex(map, thermal_conductivity)
    IN  IF MapFind(map, thermal_conductivity)
        THEN [thrown |-> NoException, value |-> at.value, map |-> at.map]
        ELSE [thrown |-> NoException, value |-> R(-1), map |-> at.map]

getViscosity(map, thermal_conductivity) ==
    IF MapFind(map, thermal_conductivity)
    THEN LET at == MapIndex(map, thermal_conductivity)
         IN  [thrown |-> NoException, value |-> at.value, map |-> at.map]
    ELSE [thrown |-> NoException, value |-> R(-1), map |-> map]

(***************************************************************************)
(* A line typed at a prompt: empty, a number std::stod converts, text it   *)
(* rejects with std::invalid_argument, or a number too large for a double, *)
(* which it rejects with std::out_of_range.                                *)
(***************************************************************************)
EmptyLine == [kind |-> "empty", val |-> R(0)]
Malformed == [kind |-> "malformed", val |-> R(0)]
TooLarge == [kind |-> "too large", val |-> R(0)]
Number(v) == [kind |-> "number", val |-> v]

stod(input) ==
    CASE input.kind = "number" -> [thrown |-> NoException, val |-> input.val]
      [] input.kind = "too large" -> [thrown |-> "out_of_range", val |-> NaN]
      [] OTHER -> [thrown |-> "invalid_argument", val |-> NaN]

\* the try block around one conversion: invalid_argument is rethrown with
\* the message given, any other exception leaves with its own what()
Rethrow(thrown, message) ==
    IF thrown = "invalid_argument" THEN message
    ELSE IF thrown = "out_of_range" THEN "stod"
    ELSE thrown

(***************************************************************************)
(* customSignalConditioning (lines 225-252)                                *)
(***************************************************************************)
customSignalConditioning(c, gainLine, offsetLine) ==
    LET gainPrompt == <<Line("Current gain: ", Format6(c.gain)),
                        Line("Enter new gain or press Enter to keep default: ", NoNumber)>>
        g == IF gainLine.kind = "empty"
             THEN [thrown |-> NoException, val |-> default_gain]
             ELSE stod(gainLine)
        c1 == [c EXCEPT !.gain = g.val]
        offsetPrompt == <<Line("Current offset: ", Format6(c1.offset)),
                          Line("Enter new offset or press Enter to keep default: ", NoNumber)>>
        o == IF offsetLine.kind = "empty"
             THEN [thrown |-> NoException, val |-> default_offset]
             ELSE stod(offsetLine)
    IN  IF g.thrown # NoException
        THEN [thrown |-> Rethrow(g.thrown, "Invalid input for gain"),
              conditioning |-> c, cout |-> gainPrompt]
        ELSE IF o.thrown # NoException
        THEN [thrown |-> Rethrow(o.thrown, "Invalid input for offset"),
              conditioning |-> c1, cout |-> gainPrompt \o offsetPrompt]
        ELSE [thrown |-> NoException,
              conditioning |-> [c1 EXCEPT !.offset = o.val],
              cout |-> gainPrompt \o offsetPrompt]

(***************************************************************************)
(* customCompilerFeature (lines 181-222)                                   *)
(***************************************************************************)
customCompilerFeature(cfg, c, decayLine, gainLine, offsetLine) ==
    LET decayPrompt == <<Line("Current decay factor: ", FormatLn(cfg.decayFactor)),
                         Line("Enter new decay factor or press Enter to keep default: ", NoNumber)>>
        d == IF decayLine.kind = "empty"
             THEN [thrown |-> NoException, val |-> cfg.decayFactor]
             ELSE stod(decayLine)
        cfg1 == [cfg EXCEPT !.decayFactor = d.val]
        rest == customSignalConditioning(c, gainLine, offsetLine)
    IN  IF d.thrown # NoException
        THEN [thrown |-> Rethrow(d.thrown, "Invalid input for decay factor"),
              config |-> cfg, conditioning |-> c, cout |-> decayPrompt]
        ELSE [thrown |-> rest.thrown, config |-> cfg1,
              conditioning |-> rest.conditioning, cout |-> decayPrompt \o rest.cout]

(***************************************************************************)
(* getDataFromSerial (lines 102-138).  The port either fails with a        *)
(* boost::system::system_error or delivers one line; the line is a         *)
(* sequence of tokens, each a number or text operator>> cannot convert.    *)
(***************************************************************************)
NotANumber == <<>>
PortError == [kind |-> "system_error", tokens |-> <<>>]
PortLine(tokens) == [kind |-> "line", tokens |-> tokens]

Condition(value, c) == RAdd(RMul(value, c.gain), c.offset)

\* while (iss >> value) { value = value * gain + offset; data.push_back(value); }
RECURSIVE ParseLoop(_, _, _)
ParseLoop(tokens, c, data) ==
    IF tokens = <<>> \/ Head(tokens) = NotANumber THEN data
    ELSE ParseLoop(Tail(tokens), c, Append(data, Condition(Head(tokens), c)))

getDataFromSerial(data, c, port) ==
    IF port.kind = "system_error"
    THEN [thrown |-> TransportFailure, data |-> data]
    ELSE [thrown |-> NoException, data |-> ParseLoop(port.tokens, c, data)]

(***************************************************************************)
(* formatData (lines 142-154)                                              *)
(***************************************************************************)
Uninitialized == <<"uninitialized">>

Matrix(rows, cols, coeff) == [rows |-> rows, cols |-> cols, coeff |-> coeff]

\* Eigen's resize: the coefficients of the resized matrix are uninitialized
Resize(rows, cols) ==
    Matrix(rows, cols, [ij \in (0 .. rows - 1) \X (0 .. cols - 1) |-> Uninitialized])

\* SqrtTruncated with the comparison off by one: 0 for n = 1
RECURSIVE SqrtBelow(_, _)
SqrtBelow(n, s) == IF (s + 1) * (s + 1) >= n THEN s ELSE SqrtBelow(n, s + 1)

\* int size = std::sqrt(raw_data.size()): the square root, truncated
RECURSIVE SqrtTruncated(_, _)
SqrtTruncated(n, s) == IF (s + 1) * (s + 1) > n THEN s ELSE SqrtTruncated(n, s + 1)

\* the nested loops writing formatted_data(j, i)
RECURSIVE FillLoopColumnMajor(_, _, _, _, _, _)
FillLoopColumnMajor(raw, size, i, j, k, coeff) ==
    IF i >= size THEN coeff
    ELSE IF j >= size THEN FillLoopColumnMajor(raw, size, i + 1, 0, k, coeff)
    ELSE FillLoopColumnMajor(raw, size, i, j + 1, k + 1,
                             [coeff EXCEPT ![<<j, i>>] = raw[k + 1]])

\* the two nested loops, at row i, column j, with k samples consumed
RECURSIVE FillLoop(_, _, _, _, _, _)
FillLoop(raw, size, i, j, k, coeff) ==
    IF i >= size THEN coeff
    ELSE IF j >= size THEN FillLoop(raw, size, i + 1, 0, k, coeff)
    ELSE FillLoop(raw, size, i, j + 1, k + 1, [coeff EXCEPT ![<<i, j>>] = raw[k + 1]])

\* formatData testing for the empty input after it has resized the matrix
formatDataResizingFirst(raw, formatted) ==
    LET size == SqrtTruncated(Len(raw), 0)
    IN  IF raw = <<>>
        THEN [thrown |-> EmptyInput, formatted_data |-> Resize(size, size)]
        ELSE [thrown |-> NoException,
              formatted_data |->
                  Matrix(size, size, FillLoop(raw, size, 0, 0, 0, Resize(size, size).coeff))]

formatData(raw, formatted) ==
    IF raw = <<>>
    THEN [thrown |-> EmptyInput, formatted_data |-> formatted]
    ELSE LET size == SqrtTruncated(Len(raw), 0)
         IN  [thrown |-> NoException,
              formatted_data |->
                  Matrix(size, size, FillLoop(raw, size, 0, 0, 0, Resize(size, size).coeff))]

(***************************************************************************)
(* curveFitting (lines 166-178)                                            *)
(***************************************************************************)
\* the inner loop with the weight written std::exp(-decayFactor) * j
RECURSIVE ColumnLoopWeightTimesRow(_, _, _, _, _)
ColumnLoopWeightTimesRow(data, decayFactor, i, j, sum) ==
    IF j >= data.rows THEN sum
    ELSE ColumnLoopWeightTimesRow(data, decayFactor, i, j + 1,
             RAdd(sum, RMul(data.coeff[<<j, i>>], RMul(StdExpNeg(decayFactor, 1), R(j)))))

\* the inner loop over the rows j of column i
RECURSIVE ColumnLoop(_, _, _, _, _)
ColumnLoop(data, decayFactor, i, j, sum) ==
    IF j >= data.rows THEN sum
    ELSE ColumnLoop(data, decayFactor, i, j + 1,
                    RAdd(sum, RMul(data.coeff[<<j, i>>], StdExpNeg(decayFactor, j))))

\* curveFitting normalised by the sum of the weights
RECURSIVE WeightSum(_, _)
WeightSum(decayFactor, rows) ==
    IF rows = 0 THEN R(0)
    ELSE RAdd(WeightSum(decayFactor, rows - 1), StdExpNeg(decayFactor, rows - 1))

curveFittingWeightedMean(data, res, cfg) ==
    IF data.rows = 0 \/ data.cols = 0
    THEN [thrown |-> EmptyMatrix, result |-> res]
    ELSE [thrown |-> NoException,
          result |-> [i \in 1 .. data.cols |->
                         RDiv(ColumnLoop(data, cfg.decayFactor, i - 1, 0, R(0)),
                              WeightSum(cfg.decayFactor, data.rows))]]

curveFitting(data, res, cfg) ==
    IF data.rows = 0 \/ data.cols = 0
    THEN [thrown |-> EmptyMatrix, result |-> res]
    ELSE [thrown |-> NoException,
          result |-> [i \in 1 .. data.cols |->
                         RDiv(ColumnLoop(data, cfg.decayFactor, i - 1, 0, R(0)),
                              R(data.rows))]]

(***************************************************************************)
(* averageAndDisplay (lines 158-161)                                       *)
(***************************************************************************)
\* Eigen's sum(): 0 for a vector of size 0
RECURSIVE VectorSum(_)
VectorSum(data) == IF data = <<>> THEN R(0) ELSE RAdd(Head(data), VectorSum(Tail(data)))

Average(data) == RDiv(VectorSum(data), R(Len(data)))

averageAndDisplay(data) ==
    [thrown |-> NoException, cout |-> <<Line("", Format6(Average(data)))>>]

(***************************************************************************)
(* The inputs the model draws from.                                        *)
(***************************************************************************)
SeqsUpTo(S, n) == UNION {[1 .. m -> S] : m \in 0 .. n}
Ramp(n) == [k \in 1 .. n |-> R(k)]

SampleValues == {R(-1), R(0), R(2)}
RawInputs == {Ramp(n) : n \in 0 .. MaxN} \cup SeqsUpTo(SampleValues, MaxLen)
SerialLines ==
    RawInputs \cup {s \o <<NotANumber, R(2)>> : s \in SeqsUpTo(SampleValues, 1)}
PortInputs == {PortError} \cup {PortLine(t) : t \in SerialLines}

GainLines == {EmptyLine, Malformed, TooLarge, Number(<<-3, 2>>)}
OffsetLines == {EmptyLine, Malformed, Number(R(1))}
DecayFactors == {Ln(R(1)), Ln(R(2)), Ln(<<1, 2>>), default_decayFactor}
DecayLines == {EmptyLine, Malformed} \cup {Number(Ln(R(1))), Number(Ln(R(2))), Number(Ln(<<1, 2>>))}

MatrixValues == {R(-1), R(2)}
Matrices ==
    UNION {{Matrix(rc[1], rc[2], f) :
               f \in [(0 .. rc[1] - 1) \X (0 .. rc[2] - 1) -> MatrixValues]} :
           rc \in (0 .. MaxRows) \X (0 .. MaxCols)}
VectorValues == {R(-1), R(2), <<1, 3>>}
Vectors == SeqsUpTo(VectorValues, MaxVecLen)
\* the matrix a caller hands to formatData: a new one, or one already in use
OutMatrices == {Resize(0, 0), Matrix(1, 1, [ij \in {<<0, 0>>} |-> R(7)])}
Keys == DOMAIN PropertyTable \cup {R(0), <<3, 20>>, <<11, 10>>, R(-1)}

(***************************************************************************)
(* main (lines 38-77)                                                      *)
(***************************************************************************)
NoCall == [fn |-> "none", arg |-> <<>>]
NoReturn == [thrown |-> NoException, value |-> NaN]

Init ==
    /\ thermal_to_viscosity = PropertyTable
    /\ conditioning = [gain |-> default_gain, offset |-> default_offset]
    /\ config = [decayFactor |-> default_decayFactor]
    /\ raw_data = <<>>
    /\ formatted_data = Resize(0, 0)
    /\ result = <<>>
    /\ example_viscosity = Uninitialized
    /\ pc = "customSignalConditioning"
    /\ cout = <<>>
    /\ cerr = <<>>
    /\ exit_code = -1
    /\ executed = <<>>
    /\ call = NoCall
    /\ ret = NoReturn

\* a handler that reports the exception and lets the next statement run
ProceedAfterReporting(stage, thrown, next) ==
    /\ executed' = Append(executed, stage)
    /\ cerr' = IF thrown # NoException
               THEN Append(cerr, <<"Caught exception: ", thrown>>) ELSE cerr
    /\ exit_code' = IF next # "done" THEN exit_code
                    ELSE IF thrown # NoException \/ cerr # <<>> THEN 1 ELSE 0
    /\ pc' = next

\* The statement `stage` of the try block has run.  An exception leaves the
\* block for the handler, which writes one line to std::cerr and returns 1;
\* otherwise control passes to the next statement, and past the last one
\* main returns 0.
Proceed(stage, thrown, next) ==
    /\ executed' = Append(executed, stage)
    /\ IF thrown # NoException
       THEN /\ cerr' = Append(cerr, <<"Caught exception: ", thrown>>)
            /\ exit_code' = 1
            /\ pc' = "done"
       ELSE /\ cerr' = cerr
            /\ exit_code' = IF next = "done" THEN 0 ELSE exit_code
            /\ pc' = next

MainCustomSignalConditioning ==
    /\ pc = "customSignalConditioning"
    /\ \E gainLine \in GainLines, offsetLine \in OffsetLines :
          LET r == customSignalConditioning(conditioning, gainLine, offsetLine)
          IN  /\ conditioning' = r.conditioning
              /\ cout' = cout \o r.cout
              /\ Proceed("customSignalConditioning", r.thrown, "getDataFromSerial")
    /\ UNCHANGED <<thermal_to_viscosity, config, raw_data, formatted_data, result,
                   example_viscosity, call, ret>>

MainGetDataFromSerial ==
    /\ pc = "getDataFromSerial"
    /\ \E port \in PortInputs :
          LET r == getDataFromSerial(raw_data, conditioning, port)
          IN  /\ raw_data' = r.data
              /\ Proceed("getDataFromSerial", r.thrown, "formatData")
    /\ UNCHANGED <<thermal_to_viscosity, conditioning, config, formatted_data, result,
                   example_viscosity, cout, call, ret>>

MainFormatData ==
    /\ pc = "formatData"
    /\ LET r == formatData(raw_data, formatted_data)
       IN  /\ formatted_data' = r.formatted_data
           /\ Proceed("formatData", r.thrown, "lookupViscosity")
    /\ UNCHANGED <<thermal_to_viscosity, conditioning, config, raw_data, result,
                   example_viscosity, cout, call, ret>>

\* double example_thermal_conductivity = 0.1;
example_thermal_conductivity == Tenths(1)

MainLookupViscosity ==
    /\ pc = "lookupViscosity"
    /\ LET r == lookupViscosity(thermal_to_viscosity, example_thermal_conductivity)
       IN  /\ thermal_to_viscosity' = r.map
           /\ example_viscosity' = IF r.thrown = NoException THEN r.value
                                                              ELSE example_viscosity
           /\ Proceed("lookupViscosity", r.thrown, "customCompilerFeature")
    /\ UNCHANGED <<conditioning, config, raw_data, formatted_data, result, cout, call, ret>>

\* main writes customCompilerFeature(config); the function defined at line
\* 181 also takes the conditioning parameters, and main's are the only ones
MainCustomCompilerFeature ==
    /\ pc = "customCompilerFeature"
    /\ \E decayLine \in DecayLines, gainLine \in GainLines, offsetLine \in OffsetLines :
          LET r == customCompilerFeature(config, conditioning, decayLine, gainLine, offsetLine)
          IN  /\ config' = r.config
              /\ conditioning' = r.conditioning
              /\ cout' = cout \o r.cout
              /\ Proceed("customCompilerFeature", r.thrown, "curveFitting")
    /\ UNCHANGED <<thermal_to_viscosity, raw_data, formatted_data, result,
                   example_viscosity, call, ret>>

MainCurveFitting ==
    /\ pc = "curveFitting"
    /\ LET r == curveFitting(formatted_data, result, config)
       IN  /\ result' = r.result
           /\ Proceed("curveFitting", r.thrown, "averageAndDisplay")
    /\ UNCHANGED <<thermal_to_viscosity, conditioning, config, raw_data, formatted_data,
                   example_viscosity, cout, call, ret>>

MainAverageAndDisplay ==
    /\ pc = "averageAndDisplay"
    /\ LET r == averageAndDisplay(result)
       IN  /\ cout' = cout \o r.cout
           /\ Proceed("averageAndDisplay", r.thrown, "done")
    /\ UNCHANGED <<thermal_to_viscosity, conditioning, config, raw_data, formatted_data,
                   result, example_viscosity, call, ret>>

Next ==
    \/ MainCustomSignalConditioning
    \/ MainGetDataFromSerial
    \/ MainFormatData
    \/ MainLookupViscosity
    \/ MainCustomCompilerFeature
    \/ MainCurveFitting
    \/ MainAverageAndDisplay

Spec == Init /\ [][Next]_vars

(***************************************************************************)
(* The functions called directly.  A caller makes one call of formatData,  *)
(* curveFitting or averageAndDisplay, or any sequence of lookups, which    *)
(* share the global thermal_to_viscosity.                                  *)
(***************************************************************************)
mainLocals == <<conditioning, config, raw_data, example_viscosity, pc, cerr, exit_code, executed>>

CallFormatData ==
    /\ call.fn = "none"
    /\ \E raw \in RawInputs, formatted \in OutMatrices :
          LET r == formatData(raw, formatted)
          IN  /\ call' = [fn |-> "formatData", arg |-> <<raw, formatted>>]
              /\ ret' = [thrown |-> r.thrown, value |-> NaN]
              /\ formatted_data' = r.formatted_data
    /\ result' = <<>>
    /\ cout' = <<>>
    /\ UNCHANGED <<thermal_to_viscosity, mainLocals>>

CallCurveFitting ==
    /\ call.fn = "none"
    /\ \E data \in Matrices, decayFactor \in DecayFactors :
          LET r == curveFitting(data, <<>>, [decayFactor |-> decayFactor])
          IN  /\ call' = [fn |-> "curveFitting", arg |-> <<data, decayFactor>>]
              /\ ret' = [thrown |-> r.thrown, value |-> NaN]
              /\ result' = r.result
    /\ formatted_data' = Resize(0, 0)
    /\ cout' = <<>>
    /\ UNCHANGED <<thermal_to_viscosity, mainLocals>>

CallAverageAndDisplay ==
    /\ call.fn = "none"
    /\ \E data \in Vectors :
          LET r == averageAndDisplay(data)
          IN  /\ call' = [fn |-> "averageAndDisplay", arg |-> data]
              /\ ret' = [thrown |-> r.thrown, value |-> NaN]
              /\ cout' = r.cout
    /\ formatted_data' = Resize(0, 0)
    /\ result' = <<>>
    /\ UNCHANGED <<thermal_to_viscosity, mainLocals>>

CallLookupViscosity ==
    /\ call.fn \in {"none", "lookupViscosity", "getViscosity"}
    /\ \E key \in Keys :
          LET r == lookupViscosity(thermal_to_viscosity, key)
          IN  /\ call' = [fn |-> "lookupViscosity", arg |-> key]
              /\ ret' = [thrown |-> r.thrown, value |-> r.value]
              /\ thermal_to_viscosity' = r.map
    /\ formatted_data' = Resize(0, 0)
    /\ result' = <<>>
    /\ cout' = <<>>
    /\ UNCHANGED mainLocals

CallGetViscosity ==
    /\ call.fn \in {"none", "lookupViscosity", "getViscosity"}
    /\ \E key \in Keys :
          LET r == getViscosity(thermal_to_viscosity, key)
          IN  /\ call' = [fn |-> "getViscosity", arg |-> key]
              /\ ret' = [thrown |-> r.thrown, value |-> r.value]
              /\ thermal_to_viscosity' = r.map
    /\ formatted_data' = Resize(0, 0)
    /\ result' = <<>>
    /\ cout' = <<>>
    /\ UNCHANGED mainLocals

NextCalls ==
    \/ CallFormatData
    \/ CallCurveFitting
    \/ CallAverageAndDisplay
    \/ CallLookupViscosity
    \/ CallGetViscosity

SpecCalls == Init /\ [][NextCalls]_vars

(***************************************************************************)
(* Properties                                                              *)
(***************************************************************************)
Stages == <<"customSignalConditioning", "getDataFromSerial", "formatData",
            "lookupViscosity", "customCompilerFeature", "curveFitting",
            "averageAndDisplay">>

IsPrefix(s, t) == Len(s) <= Len(t) /\ \A i \in 1 .. Len(s) : s[i] = t[i]

\* the lines of std::cout that are a bare number, as averageAndDisplay writes
BareLines(out) == {i \in 1 .. Len(out) : out[i].text = ""}

\* main has made its first n calls and the n-th did not throw
Passed(n) == Len(executed) >= n /\ ~(Len(executed) = n /\ exit_code = 1)

Distinct(seq) == \A a, b \in 1 .. Len(seq) : a # b => seq[a] # seq[b]

\* sum over the rows j >= j0 of column i of data[j][i] * w^(j - j0)
RECURSIVE WeightedTail(_, _, _, _)
WeightedTail(data, i, j0, w) ==
    IF j0 >= data.rows THEN R(0)
    ELSE RAdd(data.coeff[<<j0, i>>], RMul(w, WeightedTail(data, i, j0 + 1, w)))

\* C1: formatData on N >= 1 samples throws nothing and leaves a size x size
\* matrix, size the integer with size^2 <= N < (size + 1)^2, whose element
\* (k / size, k % size) is sample k for every k < size^2; a sample at an
\* index >= size^2 is written to no element.
C1_ReshapeRowMajor ==
    (call.fn = "formatData" /\ Len(call.arg[1]) >= 1) =>
        LET raw == call.arg[1]
            N == Len(raw)
            size == formatted_data.rows
        IN  /\ ret.thrown = NoException
            /\ formatted_data.cols = size
            /\ size * size <= N /\ N < (size + 1) * (size + 1)
            /\ DOMAIN formatted_data.coeff = (0 .. size - 1) \X (0 .. size - 1)
            /\ \A k \in 0 .. size * size - 1 :
                   formatted_data.coeff[<<k \div size, k % size>>] = raw[k + 1]
            /\ Distinct(raw) =>
                   \A k \in size * size .. N - 1 :
                      \A ij \in DOMAIN formatted_data.coeff :
                         formatted_data.coeff[ij] # raw[k + 1]

C1_Witness ==
    /\ call.fn = "formatData"
    /\ call.arg[1] = Ramp(7)
    /\ formatted_data.rows = 2
    /\ formatted_data.coeff[<<1, 0>>] = R(3)

\* C2: curveFitting on a matrix with rows >= 1 and cols >= 1 throws nothing
\* and leaves one entry per column, entry i the sum over the rows j of
\* data[j][i] * exp(-decayFactor)^j, divided by the number of rows.
C2_ReduceWeightedSumOverRows ==
    (call.fn = "curveFitting" /\ call.arg[1].rows >= 1 /\ call.arg[1].cols >= 1) =>
        LET data == call.arg[1]
            w == RDiv(R(1), call.arg[2].ln)
        IN  /\ ret.thrown = NoException
            /\ Len(result) = data.cols
            /\ \A i \in 0 .. data.cols - 1 :
                   result[i + 1] = RDiv(WeightedTail(data, i, 0, w), R(data.rows))

C2_Witness ==
    /\ call.fn = "curveFitting"
    /\ call.arg[1].rows = 3 /\ call.arg[1].cols = 2
    /\ call.arg[2] = Ln(R(2))
    /\ call.arg[1].coeff[<<2, 1>>] = R(-1)
    /\ Len(result) = 2

\* C3: in a run whose decay factor is 0, curveFitting leaves in each entry
\* the unweighted mean of its column; the run whose conditioned samples are
\* 1..9 reshapes them to [[1,2,3],[4,5,6],[7,8,9]], reduces that to
\* [4,5,6] and writes the average 5.
C3_ZeroDecayIsColumnMean ==
    /\ (Passed(6) /\ config.decayFactor = Ln(R(1))) =>
           /\ Len(result) = formatted_data.cols
           /\ \A i \in 0 .. formatted_data.cols - 1 :
                  result[i + 1] = RDiv(WeightedTail(formatted_data, i, 0, R(1)),
                                       R(formatted_data.rows))
    /\ (Passed(3) /\ raw_data = Ramp(9)) =>
           formatted_data = Matrix(3, 3, [ij \in (0 .. 2) \X (0 .. 2) |->
                                             R(3 * ij[1] + ij[2] + 1)])
    /\ (Passed(6) /\ raw_data = Ramp(9) /\ config.decayFactor = Ln(R(1))) =>
           result = <<R(4), R(5), R(6)>>
    /\ (Passed(7) /\ raw_data = Ramp(9) /\ config.decayFactor = Ln(R(1))) =>
           /\ exit_code = 0
           /\ cout[Len(cout)] = Line("", Decimal("", 5, 0))

C3_Witness ==
    /\ pc = "done" /\ exit_code = 0
    /\ raw_data = Ramp(9)
    /\ config.decayFactor = Ln(R(1))
    /\ result = <<R(4), R(5), R(6)>>

\* C4: lookupViscosity returns the stored viscosity of a key of the table
\* and throws KeyNotFound for any other key; getViscosity returns the same
\* stored viscosity for a key of the table and -1 for any other key, and
\* never throws.
C4_LookupPolicies ==
    /\ call.fn = "lookupViscosity" =>
           IF call.arg \in DOMAIN PropertyTable
           THEN ret = [thrown |-> NoException, value |-> PropertyTable[call.arg]]
           ELSE ret.thrown = KeyNotFound
    /\ call.fn = "getViscosity" =>
           /\ ret.thrown = NoException
           /\ ret.value = IF call.arg \in DOMAIN PropertyTable
                          THEN PropertyTable[call.arg] ELSE R(-1)

C4_Witness ==
    /\ call.fn = "lookupViscosity"
    /\ call.arg = <<3, 20>>
    /\ ret.thrown = KeyNotFound

\* C5: averageAndDisplay on a vector of length 0 throws and writes no
\* average.
C5_EmptyVectorFails ==
    (call.fn = "averageAndDisplay" /\ call.arg = <<>>) =>
        /\ ret.thrown # NoException
        /\ cout = <<>>

\* C6: formatData on an empty sample sequence throws EmptyInput and leaves
\* the matrix it was given as it was, neither resized nor written.
C6_EmptyInputFails ==
    (call.fn = "formatData" /\ call.arg[1] = <<>>) =>
        /\ ret.thrown = EmptyInput
        /\ formatted_data = call.arg[2]

C6_Witness ==
    /\ call.fn = "formatData"
    /\ call.arg[1] = <<>>
    /\ call.arg[2].rows = 1
    /\ ret.thrown = EmptyInput

\* C7: main makes its calls in the fixed order; once a call has thrown, no
\* further call is made, no average is written, one line is on std::cerr
\* and main has returned 1; an average is written only when all seven
\* calls returned, and then main returns 0.
C7_StopsAtFirstFailure ==
    /\ IsPrefix(executed, Stages)
    /\ cerr # <<>> =>
           /\ pc = "done"
           /\ exit_code = 1
           /\ Len(cerr) = 1
           /\ BareLines(cout) = {}
    /\ exit_code = 1 => cerr # <<>>
    /\ (pc = "done") <=> (exit_code # -1)
    /\ pc # "done" => pc = Stages[Len(executed) + 1]
    /\ BareLines(cout) # {} =>
           /\ executed = Stages
           /\ cerr = <<>>
           /\ exit_code = 0
           /\ BareLines(cout) = {Len(cout)}
    /\ exit_code = 0 => BareLines(cout) # {}

C7_Witness ==
    /\ pc = "done"
    /\ exit_code = 1
    /\ executed = SubSeq(Stages, 1, 3)
    /\ cerr = <<(<<"Caught exception: ", EmptyInput>>)>>
    /\ cout # <<>>

\* C8: after any sequence of calls of lookupViscosity and getViscosity the
\* table holds exactly the pairs it was initialised with.
C8_TableUnchanged == thermal_to_viscosity = PropertyTable

C8_Witness ==
    /\ call.fn = "getViscosity"
    /\ call.arg = <<11, 10>>
    /\ ret.value = R(-1)

\* C9: a run that returns 0 has written the viscosity it looked up beside
\* the average, and the average written is that of the reduced vector
\* alone.
C9_ViscosityReported ==
    exit_code = 0 =>
        /\ cout[Len(cout)] = Line("", Format6(Average(result)))
        /\ \/ \E i \in BareLines(cout) \ {Len(cout)} :
                  cout[i].num = Format6(example_viscosity)
           \/ \E i \in 1 .. Len(cout) :
                  /\ cout[i].text \notin {"", "Current gain: ", "Current offset: ",
                                           "Current decay factor: "}
                  /\ cout[i].num = Format6(example_viscosity)

\* C10: in main, once formatData has returned the matrix has at least one
\* row and one column, curveFitting never throws EmptyMatrix, and the
\* vector averageAndDisplay receives has at least one entry.
C10_NoEmptyMatrixOrVector ==
    /\ Passed(3) => formatted_data.rows >= 1 /\ formatted_data.cols >= 1
    /\ \A i \in 1 .. Len(cerr) : cerr[i][2] # EmptyMatrix
    /\ Len(executed) >= 6 => Passed(6) /\ Len(result) >= 1
    /\ Passed(7) => cout[Len(cout)].num.special = ""

C10_Witness ==
    /\ pc = "done" /\ exit_code = 0
    /\ Len(raw_data) = 1
    /\ formatted_data.rows = 1
    /\ Len(result) = 1
====
